---- MODULE Spec2Model ----
(***************************************************************************)
(* A model of the RISB self-consistency core:                              *)
(*   - NewtonSolver (src/src/risb/optimize/solver_newton.py): the          *)
(*     quasi-Newton driver loop `solve`, its bounded histories and the     *)
(*     helper _insert_vector;                                              *)
(*   - SmearingKWeight (src/python/risb/kweight/kweight.py): the           *)
(*     integration-weight engine and its update_weights handler.           *)
(*                                                                         *)
(* The pieces are independent objects.        The variable `unit` says     *)
(* which of them a behaviour exercises; the variables of the other pieces  *)
(* stay at their initial value.                                            *)
(*                                                                         *)
(* Encodings.  A Python value that may be absent (None, an attribute not   *)
(* yet assigned, np.inf in place of a number) is a sequence of length 0    *)
(* or 1: None == << >>, Some(v) == <<v>>.  A guess, an image and a         *)
(* residual are integers; the 2-norm of a residual is its absolute value.  *)
(***************************************************************************)
EXTENDS Integers, Sequences, FiniteSets, TLC

\* ------------------------------------------------------------------ bounds
MaxHist == 3
MaxRestart == 2
MaxIter == 3
MaxCalls == 2
MaxCap == 3
MaxInserts == 4
MaxLen == 3

\* ---------------------------------------------------------- sample inputs
\* guesses and images
Vals == {0, 1}
\* residuals returned by the residual function
Errs == {-1, 0}
\* tolerances: 0 never converges, 1 converges on a zero residual
Tols == {0, 1}
\* step sizes
Alphas == {1, 2}
\* errors the residual function or the update rule may raise
Excs == {"E1", "E2"}

None == << >>
Some(v) == <<v>>

Abs(i) == IF i < 0 THEN -i ELSE i

\* smearing method selectors: the three the engine knows, and another one
Methods == {"fermi", "gaussian", "methfessel-paxton"}
Selectors == Methods \cup {"lorentzian"}
\* symmetry block labels
Blocks == {"up", "dn"}
\* per-block energy arrays: one or two k-points.  Energies are even, so
\* that a chemical potential between two levels is an integer too.
Arrays == {<<0>>, <<2>>, <<0, 2>>}
\* configured chemical potentials and target fillings
Mus == {0}
Targets == {0, 1}

VARIABLES
    unit,
    \* NewtonSolver instance
    history_size, n_restart,
    self_x, self_g_x, self_error,
    self_n, self_success, self_norm,
    \* locals and arguments of the running solve call
    pc, x, g_x, error, x0, tol, maxiter, alpha, it,
    \* what the call handed back: the returned value, the raised error
    ret, exc,
    \* observation of the calls solve makes: the number of solve calls
    \* started, of fun and update_x calls of the running solve, the argument
    \* of the last fun call, the arguments of the update_x call that has just
    \* been made, its result; the first evaluation of the running solve whose
    \* residual had a norm below tol (its iteration and argument); what a
    \* callback raised; the success flag the instance had when solve began
    ncalls, n_fun, n_upd, fun_x, upd_args, upd_out, hit, thrown, was_success,
    \* for each entry of the guess history the iteration of the running call
    \* whose evaluation takes that guess, for each entry of the residual
    \* history the iteration whose evaluation returned it; an entry that an
    \* earlier call pushed is marked as such
    born,
    \* scratch History Buffer driven through _insert_vector alone: the list,
    \* the max_size of the calls, their number, the list it started as, and
    \* the list and the element handed to the last call
    buf, buf_cap, buf_cnt, buf0, buf_last,
    \* the last _load_history call: its arguments and what it gave
    trim,
    \* SmearingKWeight instance: whether construction succeeded, the bound
    \* smearing function, _mu, _n_target, _energies, _n_k, _weight, and what
    \* the last update_weights call returned or raised
    kw_pc, kw_smear, kw_mu, kw_n_target, kw_energies, kw_n_k, kw_weight,
    kw_ret, kw_exc,
    \* the arguments the constructor was called with, and the attribute
    \* _weights that the property `weights` reads
    kw_args, kw_weights,
    \* _mu as the last update_weights call found it
    kw_before

solverCfg == <<history_size, n_restart>>
solverSelf == <<self_x, self_g_x, self_error, self_n, self_success, self_norm>>
solverLoc == <<pc, x, g_x, error, x0, tol, maxiter, alpha, it, ret, exc>>
solverObs == <<ncalls, n_fun, n_upd, fun_x, upd_args, upd_out, hit, thrown, was_success, born>>
solverVars == <<solverCfg, solverSelf, solverLoc, solverObs>>
bufVars == <<buf, buf_cap, buf_cnt, buf0, buf_last, trim>>
kwCfg == <<kw_pc, kw_smear, kw_n_target, kw_args>>
kwStored == <<kw_energies, kw_n_k, kw_mu, kw_weight>>
kwVars == <<kwCfg, kwStored, kw_ret, kw_exc, kw_weights, kw_before>>
vars == <<unit, solverVars, bufVars, kwVars>>

\* ------------------------------------------------------- History Buffer

\* list.pop(): drop the last element
Pop(vec) == SubSeq(vec, 1, Len(vec) - 1)

\* A faulty insert that evicts only once the cap is exceeded.
InsertVectorLate(vec, vec_new, max_size) ==
    LET ins == <<vec_new>> \o vec
    IN  IF max_size # None /\ Len(ins) > max_size[1] THEN Pop(ins) ELSE ins

\* A faulty insert that reads `if max_size:` and so takes 0 for no cap.
InsertVectorTruthy(vec, vec_new, max_size) ==
    LET ins == <<vec_new>> \o vec
    IN  IF max_size # None /\ max_size[1] # 0 /\ Len(ins) >= max_size[1]
        THEN Pop(ins) ELSE ins

\* A faulty insert that evicts with pop(0), the element just inserted.
InsertVectorPopFront(vec, vec_new, max_size) ==
    LET ins == <<vec_new>> \o vec
    IN  IF max_size # None /\ Len(ins) >= max_size[1] THEN Tail(ins) ELSE ins

\* NewtonSolver._insert_vector: prepend, then evict the last element when
\* the length has reached max_size.  max_size is None or Some(m).
InsertVector(vec, vec_new, max_size) ==
    LET ins == <<vec_new>> \o vec
    IN  IF max_size # None /\ Len(ins) >= max_size[1] THEN Pop(ins) ELSE ins

\* A push that takes history_size = 0 for "no cap".
PushZeroUncapped(vec, v) ==
    InsertVector(vec, v, IF history_size > 0 THEN Some(history_size) ELSE None)

\* `if self.history_size > 0: self._insert_vector(vec, v, self.history_size)`
Push(vec, v) ==
    IF history_size > 0 THEN InsertVector(vec, v, Some(history_size)) ELSE vec

\* -------------------------------------------------------- NewtonSolver

\* the mark of a history entry pushed by an earlier solve call
Earlier == [n |-> -1]
\* the marks of a history at the start of a new call
Aged(tags) == [i \in 1..Len(tags) |-> Earlier]

\* NewtonSolver.__init__
SolverInit ==
    /\ history_size \in 0..MaxHist
    /\ n_restart \in {None} \cup {Some(r) : r \in 1..MaxRestart}
    /\ self_x = << >> /\ self_g_x = << >> /\ self_error = << >>
    /\ self_n = 0
    /\ self_success = FALSE
    /\ self_norm = None
    /\ pc = "idle"
    /\ x = 0 /\ g_x = 0 /\ error = 0 /\ x0 = 0
    /\ tol = 0 /\ maxiter = 0 /\ alpha = 1 /\ it = 0
    /\ ret = None /\ exc = None
    /\ ncalls = 0 /\ n_fun = 0 /\ n_upd = 0
    /\ fun_x = None /\ upd_args = None /\ upd_out = None
    /\ hit = None /\ thrown = None /\ was_success = FALSE
    /\ born = [x |-> << >>, error |-> << >>]

\* An instance that is in no call: just constructed, or a call has ended.
AtRest == pc \in {"idle", "returned", "raised"}

\* solve, lines 163-171: reset the success flag, copy x0, push it.
Solve(x0_, tol_, maxiter_, alpha_) ==
    /\ unit = "solver"
    /\ AtRest
    /\ ncalls < MaxCalls
    /\ x0' = x0_ /\ tol' = tol_ /\ maxiter' = maxiter_ /\ alpha' = alpha_
    /\ self_success' = FALSE
    /\ x' = x0_
    /\ self_x' = Push(self_x, x0_)
    /\ born' = [x |-> Push(Aged(born.x), [n |-> 0]), error |-> Aged(born.error)]
    /\ it' = 0
    /\ pc' = "for"
    /\ ret' = None /\ exc' = None
    /\ ncalls' = ncalls + 1
    /\ n_fun' = 0 /\ n_upd' = 0
    /\ fun_x' = None /\ upd_args' = None /\ upd_out' = None
    /\ hit' = None /\ thrown' = None /\ was_success' = self_success
    /\ g_x' = 0 /\ error' = 0
    /\ UNCHANGED <<solverCfg, self_g_x, self_error, self_n, self_norm>>
    /\ UNCHANGED <<unit, bufVars, kwVars>>

\* `for self.n in range(options['maxiter'])`: bind the next index, or leave
\* the loop when the range is exhausted (self.n keeps its last value).
ForNext ==
    /\ unit = "solver"
    /\ pc = "for"
    /\ IF it < maxiter
       THEN /\ self_n' = it
            /\ it' = it + 1
            /\ pc' = "fun"
       ELSE /\ pc' = "ret"
            /\ UNCHANGED <<self_n, it>>
    /\ UNCHANGED <<solverCfg, self_x, self_g_x, self_error, self_success, self_norm>>
    /\ UNCHANGED <<x, g_x, error, x0, tol, maxiter, alpha, ret, exc>>
    /\ UNCHANGED <<solverObs, unit, bufVars, kwVars>>

\* line 175, `g_x, error = fun(x, *args)`, returning normally.  fun is the
\* caller's residual function: it returns the image g(x) and the residual
\* g(x) - x, so the image is x + e for the residual e it returns.
FunReturns(e) ==
    /\ unit = "solver"
    /\ pc = "fun"
    /\ g_x' = x + e /\ error' = e
    /\ n_fun' = n_fun + 1
    /\ fun_x' = Some(x)
    /\ hit' = IF hit = None /\ Abs(e) < tol THEN Some([n |-> self_n, x |-> x]) ELSE hit
    /\ pc' = "push_ge"
    /\ UNCHANGED <<solverCfg, solverSelf, x, x0, tol, maxiter, alpha, it, ret, exc>>
    /\ UNCHANGED <<ncalls, n_upd, upd_args, upd_out, thrown, was_success, born>>
    /\ UNCHANGED <<unit, bufVars, kwVars>>

\* An error handler that wraps what a callback raised.
PropagateWrapped(e) == "SolverError"

\* The handling of an error raised inside solve: there is no try/except in
\* solve, so the error leaves solve as it is.
Propagate(e) == e

\* line 175, fun raising
FunRaises(e) ==
    /\ unit = "solver"
    /\ pc = "fun"
    /\ n_fun' = n_fun + 1
    /\ fun_x' = Some(x)
    /\ thrown' = Some([by |-> "fun", e |-> e])
    /\ exc' = Some(Propagate(e))
    /\ pc' = "raised"
    /\ UNCHANGED <<solverCfg, solverSelf, x, g_x, error, x0, tol, maxiter, alpha, it, ret>>
    /\ UNCHANGED <<ncalls, n_upd, upd_args, upd_out, hit, was_success, born>>
    /\ UNCHANGED <<unit, bufVars, kwVars>>

\* lines 177-179: push the image and the residual
PushImage ==
    /\ unit = "solver"
    /\ pc = "push_ge"
    /\ self_g_x' = Push(self_g_x, g_x)
    /\ self_error' = Push(self_error, error)
    /\ born' = [born EXCEPT !.error = Push(born.error, [n |-> self_n])]
    /\ pc' = "norm"
    /\ UNCHANGED <<solverCfg, self_x, self_n, self_success, self_norm>>
    /\ UNCHANGED <<x, g_x, error, x0, tol, maxiter, alpha, it, ret, exc>>
    /\ UNCHANGED <<ncalls, n_fun, n_upd, fun_x, upd_args, upd_out, hit, thrown, was_success>>
    /\ UNCHANGED <<unit, bufVars, kwVars>>

\* The convergence test with the comparison reversed.
ConvergedGt(norm, tol_) == norm > tol_

\* The convergence test accepting a norm equal to tol.
ConvergedLeq(norm, tol_) == norm <= tol_

\* line 184: `self.norm < tol`
Converged(norm, tol_) == norm < tol_

\* lines 181-186: store the norm, test it against tol
CheckNorm ==
    /\ unit = "solver"
    /\ pc = "norm"
    /\ self_norm' = Some(Abs(error))
    /\ IF Converged(Abs(error), tol)
       THEN /\ self_success' = TRUE
            /\ pc' = "ret"
       ELSE /\ pc' = "upd"
            /\ UNCHANGED self_success
    /\ UNCHANGED <<solverCfg, self_x, self_g_x, self_error, self_n>>
    /\ UNCHANGED <<x, g_x, error, x0, tol, maxiter, alpha, it, ret, exc>>
    /\ UNCHANGED <<solverObs, unit, bufVars, kwVars>>

\* The arguments an update rule handed the instance's histories would get.
UpdateArgsHistories ==
    [x |-> self_x, g_x |-> self_g_x, error |-> self_error, alpha |-> alpha]

\* line 188: the arguments of `self.update_x(x, g_x, error, options['alpha'])`:
\* the locals of the current iteration.  update_x reads each of its first
\* three parameters as a list of entries; the local it is handed holds the
\* data of the current iterate alone, hence the one-entry lists.
UpdateArgs ==
    [x |-> <<x>>, g_x |-> <<g_x>>, error |-> <<error>>, alpha |-> alpha]

\* line 188, update_x returning the new guess
UpdateReturns(x_new) ==
    /\ unit = "solver"
    /\ pc = "upd"
    /\ upd_args' = Some(UpdateArgs)
    /\ x' = x_new
    /\ upd_out' = Some(x_new)
    /\ n_upd' = n_upd + 1
    /\ pc' = "restart"
    /\ UNCHANGED <<solverCfg, solverSelf, g_x, error, x0, tol, maxiter, alpha, it, ret, exc>>
    /\ UNCHANGED <<ncalls, n_fun, fun_x, hit, thrown, was_success, born>>
    /\ UNCHANGED <<unit, bufVars, kwVars>>

\* line 188, update_x raising
UpdateRaises(e) ==
    /\ unit = "solver"
    /\ pc = "upd"
    /\ upd_args' = Some(UpdateArgs)
    /\ n_upd' = n_upd + 1
    /\ thrown' = Some([by |-> "update_x", e |-> e])
    /\ exc' = Some(Propagate(e))
    /\ pc' = "raised"
    /\ UNCHANGED <<solverCfg, solverSelf, x, g_x, error, x0, tol, maxiter, alpha, it, ret>>
    /\ UNCHANGED <<ncalls, n_fun, fun_x, upd_out, hit, was_success, born>>
    /\ UNCHANGED <<unit, bufVars, kwVars>>

\* A restart test that counts the iteration just finished, (n + 1) % r.
RestartDueAfter(n, r) == r # None /\ (n + 1) % r[1] = 0

\* line 190: `(self.n % self.n_restart) == 0`.  With n_restart = np.inf
\* (None here) Python's float modulo gives n % inf == n for n >= 0, so the
\* test is n == 0.
RestartDue(n, r) == IF r = None THEN n = 0 ELSE n % r[1] = 0

\* A restart that forgets the residual history.
RestartKeepsResiduals ==
    /\ unit = "solver"
    /\ pc = "restart"
    /\ IF RestartDue(self_n, n_restart)
       THEN self_x' = << >> /\ self_g_x' = << >> /\ born' = [born EXCEPT !.x = << >>]
       ELSE UNCHANGED <<self_x, self_g_x, born>>
    /\ pc' = "push_x"
    /\ upd_args' = None
    /\ UNCHANGED <<solverCfg, self_error, self_n, self_success, self_norm>>
    /\ UNCHANGED <<x, g_x, error, x0, tol, maxiter, alpha, it, ret, exc>>
    /\ UNCHANGED <<ncalls, n_fun, n_upd, fun_x, upd_out, hit, thrown, was_success>>
    /\ UNCHANGED <<unit, bufVars, kwVars>>

\* lines 190-193: discard the three histories on a restart iteration
Restart ==
    /\ unit = "solver"
    /\ pc = "restart"
    /\ IF RestartDue(self_n, n_restart)
       THEN /\ self_x' = << >> /\ self_g_x' = << >> /\ self_error' = << >>
            /\ born' = [x |-> << >>, error |-> << >>]
       ELSE UNCHANGED <<self_x, self_g_x, self_error, born>>
    /\ pc' = "push_x"
    /\ upd_args' = None
    /\ UNCHANGED <<solverCfg, self_n, self_success, self_norm>>
    /\ UNCHANGED <<x, g_x, error, x0, tol, maxiter, alpha, it, ret, exc>>
    /\ UNCHANGED <<ncalls, n_fun, n_upd, fun_x, upd_out, hit, thrown, was_success>>
    /\ UNCHANGED <<unit, bufVars, kwVars>>

\* lines 195-196: push the new guess
PushGuess ==
    /\ unit = "solver"
    /\ pc = "push_x"
    /\ self_x' = Push(self_x, x)
    /\ born' = [born EXCEPT !.x = Push(born.x, [n |-> self_n + 1])]
    /\ pc' = "for"
    /\ UNCHANGED <<solverCfg, self_g_x, self_error, self_n, self_success, self_norm>>
    /\ UNCHANGED <<x, g_x, error, x0, tol, maxiter, alpha, it, ret, exc>>
    /\ UNCHANGED <<ncalls, n_fun, n_upd, fun_x, upd_args, upd_out, hit, thrown, was_success>>
    /\ UNCHANGED <<unit, bufVars, kwVars>>

\* lines 198-204: `return x`
Return ==
    /\ unit = "solver"
    /\ pc = "ret"
    /\ ret' = Some(x)
    /\ pc' = "returned"
    /\ UNCHANGED <<solverCfg, solverSelf, x, g_x, error, x0, tol, maxiter, alpha, it, exc>>
    /\ UNCHANGED <<solverObs, unit, bufVars, kwVars>>

\* ------------------------------------------------ scratch History Buffer

\* all sequences over S of length at most n
SeqsUpTo(S, n) == UNION {[1..k -> S] : k \in 0..n}

BufInit ==
    /\ buf \in SeqsUpTo(Vals, MaxLen - 1)
    /\ buf0 = buf
    /\ buf_cap \in {None} \cup {Some(m) : m \in 0..MaxCap}
    /\ buf_cnt = 0
    /\ buf_last = None

\* one call _insert_vector(buf, v, buf_cap)
BufInsert(v) ==
    /\ unit = "buffer"
    /\ buf_cnt < MaxInserts
    /\ buf' = InsertVector(buf, v, buf_cap)
    /\ buf_cnt' = buf_cnt + 1
    /\ buf_last' = Some([vec |-> buf, vec_new |-> v])
    /\ UNCHANGED <<buf_cap, buf0, trim, unit, solverVars, kwVars>>

\* IndexError('pop from empty list')
PopFromEmpty == "IndexError: pop from empty list"
\* ValueError('x and error are the wrong lengths !'), line 76
WrongLengths == "ValueError: x and error are the wrong lengths !"

RECURSIVE PopWhile(_, _)
\* `while len(out) >= max_size: out.pop()`, lines 81-84; pop on an empty
\* list raises IndexError.
PopWhile(out, max_size) ==
    IF Len(out) >= max_size
    THEN IF out = << >> THEN [exc |-> Some(PopFromEmpty), val |-> out]
         ELSE PopWhile(Pop(out), max_size)
    ELSE [exc |-> None, val |-> out]

\* A trim whose length test forgets a guess list shorter than the residuals.
LoadHistoryLaxCheck(xs, es, max_size) ==
    IF Len(xs) > Len(es) + 1
    THEN [exc |-> Some(WrongLengths), out |-> None, x |-> xs, error |-> es]
    ELSE LET xo == PopWhile(xs, max_size)
             eo == PopWhile(es, max_size)
         IN  IF xo.exc # None
             THEN [exc |-> xo.exc, out |-> None, x |-> xs, error |-> es]
             ELSE IF eo.exc # None
             THEN [exc |-> eo.exc, out |-> None, x |-> xs, error |-> es]
             ELSE [exc |-> None, out |-> Some(<<xo.val, eo.val>>),
                   x |-> xs, error |-> es]

\* A trim without the deepcopy: it pops the caller's lists.
LoadHistoryInPlace(xs, es, max_size) ==
    IF Len(xs) # Len(es) /\ Len(xs) # Len(es) + 1
    THEN [exc |-> Some(WrongLengths), out |-> None, x |-> xs, error |-> es]
    ELSE LET xo == PopWhile(xs, max_size)
             eo == PopWhile(es, max_size)
         IN  IF xo.exc # None
             THEN [exc |-> xo.exc, out |-> None, x |-> xo.val, error |-> es]
             ELSE IF eo.exc # None
             THEN [exc |-> eo.exc, out |-> None, x |-> xo.val, error |-> eo.val]
             ELSE [exc |-> None, out |-> Some(<<xo.val, eo.val>>),
                   x |-> xo.val, error |-> eo.val]

\* NewtonSolver._load_history(x, error, max_size), lines 70-86: what it
\* raises, the pair it returns, and the two argument lists as the call
\* leaves them (it pops deep copies only).
LoadHistory(xs, es, max_size) ==
    IF Len(xs) # Len(es) /\ Len(xs) # Len(es) + 1
    THEN [exc |-> Some(WrongLengths), out |-> None, x |-> xs, error |-> es]
    ELSE LET xo == PopWhile(xs, max_size)
             eo == PopWhile(es, max_size)
         IN  IF xo.exc # None
             THEN [exc |-> xo.exc, out |-> None, x |-> xs, error |-> es]
             ELSE IF eo.exc # None
             THEN [exc |-> eo.exc, out |-> None, x |-> xs, error |-> es]
             ELSE [exc |-> None, out |-> Some(<<xo.val, eo.val>>),
                   x |-> xs, error |-> es]

\* the arguments of a _load_history call that has not run yet
TrimInit ==
    trim \in [x : SeqsUpTo(Vals, MaxLen), error : SeqsUpTo(Errs, MaxLen),
              max_size : 0..MaxCap, res : {None}]

\* the call _load_history(trim.x, trim.error, trim.max_size)
LoadHistoryCall ==
    /\ unit = "trim"
    /\ trim.res = None
    /\ trim' = [trim EXCEPT !.res = Some(LoadHistory(trim.x, trim.error, trim.max_size))]
    /\ UNCHANGED <<buf, buf_cap, buf_cnt, buf0, buf_last, unit, solverVars, kwVars>>

\* ------------------------------------------------------ SmearingKWeight

\* An energies argument: a dict, here the sequence of its items in
\* insertion order, of one or two blocks with distinct labels.
EnergyDicts ==
    {<<[bl |-> b, val |-> a]>> : b \in Blocks, a \in Arrays}
    \cup {d \in {<<[bl |-> b1, val |-> a1], [bl |-> b2, val |-> a2]>> :
                    b1 \in Blocks, b2 \in Blocks, a1 \in Arrays, a2 \in Arrays} :
            d[1].bl # d[2].bl}

\* ValueError('Blocks must be on the same sized grid !'), line 75
ShapeMismatch == "ValueError: Blocks must be on the same sized grid !"
\* ValueError of brentq when the bracket holds no sign change, line 97
BracketError == "ValueError: f(a) and f(b) must have different signs"
\* TypeError of `energies - mu` with mu = None, line 39, 45 or 55
MuTypeError == "TypeError: unsupported operand type(s) for -"
\* ValueError('Unrecoganized smearing function !'), line 35
MethodError == "ValueError: Unrecoganized smearing function !"

\* A constructor that lets an unknown selector fall through to gaussian.
BindFallsThrough(sel) ==
    CASE sel = "fermi" -> Some("fermi")
      [] sel = "methfessel-paxton" -> Some("methfessel_paxton")
      [] OTHER -> Some("gaussian")

\* __init__, lines 28-35: the static method bound to smear_function for a
\* selector, None for a selector that raises.
Bind(sel) ==
    CASE sel = "fermi" -> Some("fermi")
      [] sel = "gaussian" -> Some("gaussian")
      [] sel = "methfessel-paxton" -> Some("methfessel_paxton")
      [] OTHER -> None

\* SmearingKWeight.__init__, lines 23-35: the fields are stored, then the
\* selector is matched; an unknown selector raises and no instance exists.
\* Neither mu nor n_target is looked at.
KWInit ==
    /\ kw_args \in [mu : {None} \cup {Some(m) : m \in Mus},
                    n_target : {None} \cup {Some(t) : t \in Targets},
                    method : Selectors]
    /\ kw_mu = kw_args.mu
    /\ kw_n_target = kw_args.n_target
    /\ kw_smear = Bind(kw_args.method)
    /\ IF Bind(kw_args.method) # None
       THEN kw_pc = "built" /\ kw_exc = None
       ELSE kw_pc = "failed" /\ kw_exc = Some(MethodError)
    /\ kw_energies = None /\ kw_n_k = None /\ kw_weight = None
    /\ kw_weights = None
    /\ kw_ret = None
    /\ kw_before = None

\* update_n_k, lines 70-71: the k-point count of the first block
FirstNK(en) == Len(en[1].val)

\* update_n_k, lines 72-75: some block is on another grid
GridMismatch(en) == \E i \in 1..Len(en) : Len(en[i].val) # FirstNK(en)

\* fermi / gaussian / methfessel_paxton, lines 37-61: the occupation of a
\* level e at chemical potential mu, in units of one half.  All three
\* functions give exactly 1/2 at e = mu; away from mu the value is the one
\* of the sharp limit beta * |e - mu| >> 1, the step 1 below and 0 above.
Occ2(e, mu) == IF e < mu THEN 2 ELSE IF e = mu THEN 1 ELSE 0

RECURSIVE SumSeq(_)
\* np.sum over an array
SumSeq(a) == IF a = << >> THEN 0 ELSE Head(a) + SumSeq(Tail(a))

\* smear_function(en, beta, mu) over the array of one block
SmearArray(a, mu) == [k \in 1..Len(a) |-> Occ2(a[k], mu)]

\* update_mu, lines 82-90: the global minimum and maximum energy
AllEnergies(en) ==
    UNION {{en[i].val[k] : k \in 1..Len(en[i].val)} : i \in 1..Len(en)}
EMin(en) == CHOOSE e \in AllEnergies(en) : \A d \in AllEnergies(en) : e <= d
EMax(en) == CHOOSE e \in AllEnergies(en) : \A d \in AllEnergies(en) : e >= d

RECURSIVE SumBlocks(_, _)
\* the loop of target_function, lines 93-95: the sum over the blocks of
\* np.sum(smear(en, beta, mu)), in halves
SumBlocks(en, mu) ==
    IF en = << >> THEN 0
    ELSE SumSeq(SmearArray(Head(en).val, mu)) + SumBlocks(Tail(en), mu)

\* A target function that forgets the division by n_k.
TargetFunctionNoNK(en, n_k, n_target, mu) == SumBlocks(en, mu) - 2 * n_target

\* target_function, lines 92-96: sum over blocks of sum(smear) / n_k, minus
\* n_target; here multiplied by 2 * n_k (> 0), which keeps sign and zeros.
TargetFunction(en, n_k, n_target, mu) == SumBlocks(en, mu) - 2 * n_k * n_target

\* brentq(target_function, e_min, e_max), line 97: a ValueError when both
\* ends have the same strict sign; else an end that is a zero, else a zero
\* inside the bracket, else the point where the sign changes.
BrentQ(en, n_k, n_target) ==
    LET a == EMin(en)
        b == EMax(en)
        f(mu) == TargetFunction(en, n_k, n_target, mu)
    IN  IF f(a) * f(b) > 0 THEN [exc |-> Some(BracketError), root |-> None]
        ELSE IF f(a) = 0 THEN [exc |-> None, root |-> Some(a)]
        ELSE IF f(b) = 0 THEN [exc |-> None, root |-> Some(b)]
        ELSE IF \E mu \in a..b : f(mu) = 0
        THEN [exc |-> None, root |-> Some(CHOOSE mu \in a..b : f(mu) = 0)]
        ELSE [exc |-> None,
              root |-> Some(CHOOSE mu \in a..b : f(mu) * f(a) < 0 /\
                                \A nu \in a..(mu - 1) : f(nu) * f(a) > 0)]

\* A weights mapping that is never reset: the blocks of this call, then the
\* entries an earlier call left under other labels.
WeightsKeepOld(en, mu, n_k) ==
    [i \in 1..Len(en) |->
        [bl |-> en[i].bl,
         val |-> [smear |-> kw_smear[1], num |-> SmearArray(en[i].val, mu),
                  den |-> 2 * n_k]]]
    \o (IF kw_weight = None THEN << >>
        ELSE SelectSeq(kw_weight[1],
                       LAMBDA w : \A i \in 1..Len(en) : en[i].bl # w.bl))

\* update_weights, lines 116-118: one weight array per block of the
\* energies, smear(energies[bl], beta, mu) / n_k.  A weight is the fraction
\* num / den with num in halves, den = 2 * n_k.
Weights(en, mu, n_k) ==
    [i \in 1..Len(en) |->
        [bl |-> en[i].bl,
         val |-> [smear |-> kw_smear[1], num |-> SmearArray(en[i].val, mu),
                  den |-> 2 * n_k]]]

\* update_weights(energies), lines 100-119, with update_energies (63-66),
\* update_n_k (68-78) and update_mu (80-98) that it calls.
UpdateWeights(en) ==
    /\ unit = "kweight"
    /\ kw_pc = "built"
    /\ kw_before' = Some(kw_mu)
    /\ kw_energies' = Some(en)
    /\ kw_n_k' = Some(FirstNK(en))
    /\ LET found == BrentQ(en, FirstNK(en), kw_n_target[1])
       IN
       IF GridMismatch(en)
       THEN /\ kw_exc' = Some(ShapeMismatch)
            /\ kw_ret' = None
            /\ UNCHANGED <<kw_mu, kw_weight>>
       ELSE IF kw_n_target # None /\ found.exc # None
       THEN /\ kw_exc' = found.exc
            /\ kw_ret' = None
            /\ UNCHANGED <<kw_mu, kw_weight>>
       ELSE LET mu1 == IF kw_n_target # None THEN found.root ELSE kw_mu
            IN  /\ kw_mu' = mu1
                /\ IF mu1 = None
                   THEN /\ kw_weight' = Some(<< >>)
                        /\ kw_exc' = Some(MuTypeError)
                        /\ kw_ret' = None
                   ELSE /\ kw_weight' = Some(Weights(en, mu1[1], FirstNK(en)))
                        /\ kw_exc' = None
                        /\ kw_ret' = Some(Weights(en, mu1[1], FirstNK(en)))
    /\ UNCHANGED <<kwCfg, kw_weights, unit, solverVars, bufVars>>

\* The properties mu, energies and weights, lines 125-143: the value read,
\* or the AttributeError of an attribute no statement has assigned.
NoAttribute == "AttributeError"
PropMu == [exc |-> None, val |-> kw_mu]
PropEnergies ==
    IF kw_energies = None THEN [exc |-> Some(NoAttribute), val |-> None]
    ELSE [exc |-> None, val |-> kw_energies]
PropWeights ==
    IF kw_weights = None THEN [exc |-> Some(NoAttribute), val |-> None]
    ELSE [exc |-> None, val |-> kw_weights]

\* --------------------------------------------------------- specification

\* The other pieces, parked: a default solver, an uncapped empty buffer, a
\* fermi engine with a given mu.
SolverParked == SolverInit /\ history_size = 0 /\ n_restart = None
BufParked == BufInit /\ buf_cap = None /\ buf = << >>
TrimParked == TrimInit /\ trim.x = << >> /\ trim.error = << >> /\ trim.max_size = 0
KWParked == KWInit /\ kw_args.method = "fermi" /\ kw_mu # None /\ kw_n_target = None

Init ==
    /\ unit \in {"solver", "buffer", "trim", "kweight"}
    /\ IF unit = "solver" THEN SolverInit ELSE SolverParked
    /\ IF unit = "buffer" THEN BufInit ELSE BufParked
    /\ IF unit = "trim" THEN TrimInit ELSE TrimParked
    /\ IF unit = "kweight" THEN KWInit ELSE KWParked

Next ==
    \/ \E a \in Vals, t \in Tols, m \in 0..MaxIter, al \in Alphas : Solve(a, t, m, al)
    \/ ForNext
    \/ \E e \in Errs : FunReturns(e)
    \/ \E e \in Excs : FunRaises(e)
    \/ PushImage
    \/ CheckNorm
    \/ \E v \in Vals : UpdateReturns(v)
    \/ \E e \in Excs : UpdateRaises(e)
    \/ Restart
    \/ PushGuess
    \/ Return
    \/ \E v \in Vals : BufInsert(v)
    \/ LoadHistoryCall
    \/ \E en \in EnergyDicts : UpdateWeights(en)

Spec == Init /\ [][Next]_vars

\* ------------------------------------------------------------------ claims

\* A solve call is running or has just ended on the instance.
InSolve == unit = "solver" /\ ncalls >= 1

\* C1: when the residual returned in iteration n is the first of the call
\* whose norm is below tol, solve stops in that iteration: residual_fn has
\* been evaluated n + 1 times and update_x called n times and neither is
\* called again, the success flag is set, and the value returned is the x
\* that was passed to residual_fn in iteration n (x0 itself when n = 0).
C1_ConvergenceStopsAndReturnsArgument ==
    (InSolve /\ hit # None) =>
        /\ pc \in {"push_ge", "norm", "ret", "returned"}
        /\ self_n = hit[1].n
        /\ n_fun = hit[1].n + 1
        /\ n_upd = hit[1].n
        /\ fun_x = Some(hit[1].x)
        /\ pc \in {"ret", "returned"} => self_success
        /\ pc = "returned" => ret = Some(hit[1].x)
        /\ (pc = "returned" /\ hit[1].n = 0) => ret = Some(x0)

\* C1 witness: a call that converged in a later iteration and returned a
\* guess other than x0.
C1_Witness ==
    /\ InSolve /\ pc = "returned" /\ hit # None
    /\ hit[1].n >= 1 /\ ret = Some(hit[1].x) /\ hit[1].x # x0

\* C2: with maxiter >= 1 and no evaluated residual of norm below tol, solve
\* raises nothing of its own and returns after exactly maxiter evaluations
\* of residual_fn and exactly maxiter calls of update_x, with the success
\* flag false and the output of the last update_x call as its value.
C2_ExhaustionReturnsLastUpdate ==
    /\ (InSolve /\ hit = None) => (n_fun <= maxiter /\ n_upd <= maxiter)
    /\ (InSolve /\ pc = "raised") => thrown # None
    /\ (InSolve /\ pc \in {"ret", "returned"} /\ hit = None /\ maxiter >= 1) =>
        /\ n_fun = maxiter
        /\ n_upd = maxiter
        /\ ~self_success
        /\ upd_out # None
        /\ x = upd_out[1]
        /\ pc = "returned" => ret = upd_out

\* C2 witness: a call of at least two iterations that ran out of iterations.
C2_Witness ==
    /\ InSolve /\ pc = "returned" /\ hit = None /\ maxiter >= 2
    /\ n_upd = maxiter /\ ~self_success /\ ret = upd_out

\* C3: whenever solve calls update_x, the arguments are the instance's three
\* histories as stored at that moment, and alpha.
C3_UpdateGetsHistories ==
    (InSolve /\ upd_args # None) => upd_args[1] = UpdateArgsHistories

\* C4: during the first solve call of an instance, in every state between
\* two history operations the guess history is as long as the residual
\* history or one longer.
C4_LengthInvariant ==
    (InSolve /\ ncalls = 1) =>
        \/ Len(self_x) = Len(self_error)
        \/ Len(self_x) = Len(self_error) + 1

\* C4 witness: after two iterations of the first call the histories hold a
\* residual and one guess more.
C4_Witness ==
    /\ InSolve /\ ncalls = 1 /\ pc = "for" /\ it >= 2
    /\ Len(self_error) >= 1 /\ Len(self_x) = Len(self_error) + 1

\* C5: with n_restart left at its default no iteration discards the
\* histories: the restart step of solve leaves all three as they are.
C5_DefaultNeverDiscards ==
    [][(unit = "solver" /\ n_restart = None /\ pc = "restart")
        => UNCHANGED <<self_x, self_g_x, self_error>>]_vars

\* C6: for finite n_restart = r and a history_size that does not evict, once
\* iterations 0 .. r-1 of the first call have run the residual history is
\* empty at the moment the residual of iteration r is appended.
C6_EmptyAfterRIterations ==
    (/\ InSolve /\ ncalls = 1 /\ n_restart # None
     /\ pc = "push_ge" /\ self_n = n_restart[1]
     /\ history_size >= n_restart[1] + 1)
        => Len(self_error) = 0

\* C7: with a cap m >= 1 a sequence grown from empty by inserts holds at
\* most m - 1 elements after every insert, and so does each of the three
\* histories of a solver with history_size = m in every state.
C7_CapMinusOne ==
    /\ (unit = "buffer" /\ buf0 = << >> /\ buf_cap # None /\ buf_cap[1] >= 1) =>
            Len(buf) <= buf_cap[1] - 1
    /\ (unit = "solver" /\ history_size >= 1) =>
            /\ Len(self_x) <= history_size - 1
            /\ Len(self_g_x) <= history_size - 1
            /\ Len(self_error) <= history_size - 1

\* C7 witness: more inserts than the cap, and the sequence sits at cap - 1.
C7_Witness ==
    /\ unit = "buffer" /\ buf0 = << >> /\ buf_cap # None /\ buf_cap[1] >= 2
    /\ buf_cnt > buf_cap[1] /\ Len(buf) = buf_cap[1] - 1

\* C8: after solve returns the diagnostics describe that call: the success
\* flag is set exactly when the stored norm is below the call's tol, the
\* stored norm is that of the last residual evaluated in the call, and the
\* iteration counter is the number of evaluations of the call minus one.
C8_DiagnosticsDescribeCall ==
    (InSolve /\ pc = "returned") =>
        /\ self_success <=> (self_norm # None /\ self_norm[1] < tol)
        /\ n_fun >= 1 => self_norm = Some(Abs(error))
        /\ self_n = n_fun - 1

\* C9: when residual_fn or update_x raises in iteration n, solve ends with
\* that very error, no further callback is called (the counts stay those
\* of iteration n) and nothing is returned, and the success flag is false,
\* whatever an earlier call left in it.
C9_RaisePropagates ==
    (InSolve /\ thrown # None) =>
        /\ pc = "raised"
        /\ exc = Some(thrown[1].e)
        /\ ret = None
        /\ ~self_success
        /\ n_fun = self_n + 1
        /\ n_upd = IF thrown[1].by = "fun" THEN self_n ELSE self_n + 1

\* C9 witness: a call on an instance whose earlier call had converged; the
\* update rule raises in a later iteration.
C9_Witness ==
    /\ InSolve /\ ncalls = 2 /\ was_success /\ pc = "raised"
    /\ thrown # None /\ thrown[1].by = "update_x" /\ self_n >= 1
    /\ exc = Some(thrown[1].e)

\* C10: an update_weights call that fails on blocks of different k-point
\* counts leaves the stored energies, k-point count, chemical potential
\* and weights as they were before the call.
C10_ShapeMismatchLeavesState ==
    [][(unit = "kweight" /\ kw_exc' = Some(ShapeMismatch)) => UNCHANGED kwStored]_vars

\* An engine exists and its last update_weights call succeeded.
KWUpdated == unit = "kweight" /\ kw_pc = "built" /\ kw_exc = None /\ kw_ret # None

\* C11: an engine instance exists only when exactly one of mu and n_target
\* was supplied to the constructor.
C11_ExactlyOneOfMuAndTarget ==
    (unit = "kweight" /\ kw_pc = "built") =>
        (kw_args.mu = None) # (kw_args.n_target = None)

\* C12: after a successful update_weights call the properties weights, mu
\* and energies all give a value, and weights gives the mapping the call
\* computed and returned.
C12_AccessorsAfterUpdate ==
    KWUpdated =>
        /\ PropWeights.exc = None /\ PropWeights.val = kw_ret
        /\ PropMu.exc = None /\ PropMu.val # None
        /\ PropEnergies.exc = None /\ PropEnergies.val # None

\* The smearing function a selector names.
NamedSmear(sel) ==
    IF sel = "fermi" THEN "fermi"
    ELSE IF sel = "gaussian" THEN "gaussian"
    ELSE "methfessel_paxton"

\* C16: construction with a selector outside {fermi, gaussian,
\* methfessel-paxton} fails with the ValueError of an unrecognised method and
\* leaves no usable instance; with a selector of the set it succeeds and
\* binds the smearing function of that name, which the weights are then
\* computed with.
C16_SelectorDecidesConstruction ==
    unit = "kweight" =>
        /\ kw_args.method \notin Methods =>
              (kw_pc = "failed" /\ kw_exc = Some(MethodError) /\ kw_weight = None)
        /\ kw_args.method \in Methods =>
              /\ kw_pc = "built"
              /\ kw_exc # Some(MethodError)
              /\ kw_smear = Some(NamedSmear(kw_args.method))
              /\ KWUpdated =>
                    \A i \in 1..Len(kw_ret[1]) :
                        kw_ret[1][i].val.smear = NamedSmear(kw_args.method)

\* C16 witness: an engine built with methfessel-paxton has computed weights
\* with that function.
C16_Witness ==
    /\ KWUpdated /\ kw_args.method = "methfessel-paxton"
    /\ kw_ret[1][1].val.smear = "methfessel_paxton"

RECURSIVE SumWeights2(_)
\* The sum of all weights of a mapping over blocks and k-points, in halves
\* and before the division by n_k (the numerators of the weights).
SumWeights2(w) ==
    IF w = << >> THEN 0 ELSE SumSeq(Head(w).val.num) + SumWeights2(Tail(w))

\* C17 (as stated): for an engine with n_target, after a successful
\* update_weights the sum of all weights times the number of blocks is
\* n_target.  Sum of weights = SumWeights2 / (2 * n_k).
C17_SumTimesBlocksIsTarget ==
    (KWUpdated /\ kw_n_target # None) =>
        SumWeights2(kw_ret[1]) * Len(kw_ret[1]) = kw_n_target[1] * 2 * kw_n_k[1]

\* C17 (amended): for an engine with n_target, after a successful
\* update_weights the sum of all weights over all blocks and k-points is
\* n_target, with no factor of the number of blocks.
C17_SumIsTarget ==
    (KWUpdated /\ kw_n_target # None) =>
        SumWeights2(kw_ret[1]) = kw_n_target[1] * 2 * kw_n_k[1]

\* C17 witness: two blocks of two k-points each, the root lies between the
\* two levels.
C17_Witness ==
    /\ KWUpdated /\ kw_n_target # None
    /\ Len(kw_ret[1]) = 2 /\ kw_n_k = Some(2) /\ kw_mu = Some(1)
    /\ SumWeights2(kw_ret[1]) = 4

\* the insert harness has made a call
Inserted == unit = "buffer" /\ buf_last # None

\* C13 as stated: insert with max_size 0, as with max_size unset, lengthens
\* every sequence by exactly one and removes none of the elements it held.
C13_ZeroCapDisablesEviction ==
    (Inserted /\ (buf_cap = None \/ buf_cap = Some(0))) =>
        /\ Len(buf) = Len(buf_last[1].vec) + 1
        /\ \A i \in 1..Len(buf_last[1].vec) : buf[i + 1] = buf_last[1].vec[i]

\* C13: insert with max_size unset lengthens every sequence by exactly one
\* and removes nothing; insert with max_size = 0 evicts on every call, so
\* the sequence is the new element followed by the previous elements less
\* the oldest (an empty sequence stays empty).
C13_OnlyUnsetDisablesEviction ==
    /\ (Inserted /\ buf_cap = None) =>
            buf = <<buf_last[1].vec_new>> \o buf_last[1].vec
    /\ (Inserted /\ buf_cap = Some(0)) =>
            /\ buf = Pop(<<buf_last[1].vec_new>> \o buf_last[1].vec)
            /\ Len(buf) = Len(buf_last[1].vec)

\* C13 witness: a call with max_size = 0 on a two-element sequence dropped
\* its oldest element.
C13_Witness ==
    /\ Inserted /\ buf_cap = Some(0) /\ Len(buf_last[1].vec) = 2
    /\ buf = <<buf_last[1].vec_new, buf_last[1].vec[1]>>

\* C14: with history_size = 0 the guess, image and residual histories of a
\* fresh solver are empty in every state of solve, whatever n_restart and
\* maxiter.
C14_NoHistoryRetained ==
    (unit = "solver" /\ history_size = 0) =>
        self_x = << >> /\ self_g_x = << >> /\ self_error = << >>

\* C14 witness: the second iteration of a solve with history_size = 0 has
\* just passed its pushes of image and residual.
C14_Witness ==
    /\ unit = "solver" /\ history_size = 0 /\ pc = "norm" /\ self_n >= 1
    /\ n_upd >= 1 /\ self_error = << >>

\* a _load_history call has run
Trimmed == unit = "trim" /\ trim.res # None

\* the lengths _load_history accepts
LengthsFit(xs, es) == Len(xs) = Len(es) \/ Len(xs) = Len(es) + 1

\* C15: trim raises the shape-mismatch error whenever len(guesses) is
\* neither len(residuals) nor len(residuals) + 1, for every max_size, and
\* then leaves both input sequences as they were.
C15_WrongLengthsRejected ==
    (Trimmed /\ ~LengthsFit(trim.x, trim.error)) =>
        /\ trim.res[1].exc = Some(WrongLengths)
        /\ trim.res[1].out = None
        /\ trim.res[1].x = trim.x /\ trim.res[1].error = trim.error

\* C15 witness: a call with fewer guesses than residuals and max_size = 0
\* was rejected.
C15_Witness ==
    /\ Trimmed /\ Len(trim.x) < Len(trim.error) /\ trim.max_size = 0
    /\ trim.res[1].exc = Some(WrongLengths)

\* the restart step of an iteration of solve
RestartStep == unit = "solver" /\ pc = "restart" /\ pc' = "push_x"

C19_NewElementAtHead ==
    /\ (Inserted /\ buf_cap # None /\ buf_cap[1] >= 1) =>
            /\ buf # << >> /\ Head(buf) = buf_last[1].vec_new
            /\ Tail(buf) \in {buf_last[1].vec, Pop(buf_last[1].vec)}
    /\ (unit = "solver" /\ history_size >= 1 /\ pc = "norm") =>
            self_error # << >> /\ Head(self_error) = error

\* C19: for every max_size >= 2 the sequence after insert starts with the
\* new element, followed by the previous elements with at most the oldest
\* removed, and solve with history_size >= 2 has the residual just computed
\* at the head of the residual history right after the push.  With
\* max_size = 1 the same holds for a non-empty sequence, while on an empty
\* sequence the element evicted is the one just inserted; with
\* history_size = 1 the residual history is empty after the push.
C19_NewElementAtHeadFromTwo ==
    /\ (Inserted /\ buf_cap # None /\ buf_cap[1] >= 1
        /\ (buf_cap[1] >= 2 \/ buf_last[1].vec # << >>)) =>
            /\ buf # << >> /\ Head(buf) = buf_last[1].vec_new
            /\ Tail(buf) \in {buf_last[1].vec, Pop(buf_last[1].vec)}
    /\ (Inserted /\ buf_cap = Some(1) /\ buf_last[1].vec = << >>) => buf = << >>
    /\ (unit = "solver" /\ history_size >= 2 /\ pc = "norm") =>
            self_error # << >> /\ Head(self_error) = error
    /\ (unit = "solver" /\ history_size = 1 /\ pc = "norm") => self_error = << >>

\* C19 witness: an insert with max_size = 2 into a one-element sequence
\* evicted the old element and kept the new one.
C19_Witness ==
    /\ Inserted /\ buf_cap = Some(2) /\ Len(buf_last[1].vec) = 1
    /\ buf = <<buf_last[1].vec_new>>

\* the smaller of two numbers
Min(a, b) == IF a < b THEN a ELSE b

\* C20: for lengths that fit and every max_size >= 1, trim returns the
\* first min(len, max_size - 1) elements of each sequence in order, the
\* returned lengths again differ by 0 or 1, and both inputs are unchanged.
C20_TrimReturnsPrefixes ==
    (Trimmed /\ LengthsFit(trim.x, trim.error) /\ trim.max_size >= 1) =>
        /\ trim.res[1].exc = None
        /\ trim.res[1].out =
              Some(<<SubSeq(trim.x, 1, Min(Len(trim.x), trim.max_size - 1)),
                     SubSeq(trim.error, 1, Min(Len(trim.error), trim.max_size - 1))>>)
        /\ LengthsFit(trim.res[1].out[1][1], trim.res[1].out[1][2])
        /\ trim.res[1].x = trim.x /\ trim.res[1].error = trim.error

\* C20 witness: three guesses and two residuals trimmed with max_size = 2
\* came back as one guess and one residual.
C20_Witness ==
    /\ Trimmed /\ Len(trim.x) = 3 /\ Len(trim.error) = 2 /\ trim.max_size = 2
    /\ trim.res[1].out = Some(<<<<trim.x[1]>>, <<trim.error[1]>>>>)

\* the block labels of a dict, in order
Labels(d) == [i \in 1..Len(d) |-> d[i].bl]

\* C21: after every successful update_weights call of an engine, mu is the
\* configured value when the engine has a fixed mu and no n_target; it is
\* the root found for the energies of that call when the engine has an
\* n_target, whatever mu an earlier call left; and the returned mapping has
\* exactly the block labels of the energies of that call.
C21_EachCallStandsAlone ==
    KWUpdated =>
        /\ kw_args.n_target = None => kw_mu = kw_args.mu
        /\ kw_args.n_target # None =>
              /\ kw_mu = BrentQ(kw_energies[1], FirstNK(kw_energies[1]),
                                kw_args.n_target[1]).root
              /\ kw_mu[1] \in EMin(kw_energies[1])..EMax(kw_energies[1])
              /\ TargetFunction(kw_energies[1], FirstNK(kw_energies[1]),
                                kw_args.n_target[1], kw_mu[1]) = 0
        /\ Labels(kw_ret[1]) = Labels(kw_energies[1])
        /\ kw_weight = kw_ret

\* C21 witness: an engine with n_target whose earlier call left another mu
\* has found the root of the energies of this call.
C21_Witness ==
    /\ KWUpdated /\ kw_args.n_target # None
    /\ kw_before # None /\ kw_before[1] # None /\ kw_before[1] # kw_mu

\* the number of available states of a dict of one-band blocks
NStates(en) == Len(en)

\* C22: in update_mu the bracket [e_min, e_max] satisfies
\* f(e_min) <= 0 <= f(e_max) for every n_target from 0 to the number of
\* available states, so update_weights with such a target never fails to
\* bracket.
C22_BracketHoldsFeasibleTarget ==
    (/\ unit = "kweight" /\ kw_pc = "built" /\ kw_energies # None
     /\ ~GridMismatch(kw_energies[1])
     /\ kw_n_target # None /\ kw_n_target[1] \in 0..NStates(kw_energies[1])) =>
        /\ TargetFunction(kw_energies[1], kw_n_k[1], kw_n_target[1],
                          EMin(kw_energies[1])) <= 0
        /\ TargetFunction(kw_energies[1], kw_n_k[1], kw_n_target[1],
                          EMax(kw_energies[1])) >= 0
        /\ kw_exc # Some(BracketError)

\* C23: in every state of the first solve call of an instance, when the
\* guess and residual histories are equally long residual_history[i] is
\* the residual returned for guess_history[i], and when the guess history
\* is one longer it is the residual returned for guess_history[i+1]; also
\* once the histories sit at the cap history_size - 1.
C23_LengthRelationPairsEntries ==
    (InSolve /\ ncalls = 1) =>
        /\ Len(self_x) = Len(self_error) =>
              \A i \in 1..Len(self_error) : born.error[i] = born.x[i]
        /\ Len(self_x) = Len(self_error) + 1 =>
              \A i \in 1..Len(self_error) : born.error[i] = born.x[i + 1]

\* the entries of a history that a call before the running one pushed
Stale(tags) == {i \in 1..Len(tags) : tags[i] = Earlier}

\* C24: a solve call on an instance that completed an earlier call (here
\* one that converged) runs on the histories of a fresh instance: at its first residual evaluation the
\* guess history holds only this call's x0 (history_size >= 2), the image
\* and residual histories are empty, no entry of an earlier call is ever
\* present, and the guess history is as long as the residual history or one
\* longer throughout.
C24_LaterCallStartsFresh ==
    (InSolve /\ ncalls >= 2 /\ was_success) =>
        /\ (pc = "fun" /\ self_n = 0 /\ history_size >= 2) =>
              self_x = <<x0>> /\ self_g_x = << >> /\ self_error = << >>
        /\ Stale(born.x) = {} /\ Stale(born.error) = {}
        /\ \/ Len(self_x) = Len(self_error)
           \/ Len(self_x) = Len(self_error) + 1

====
